---- MODULE Spec2Model ----
(***************************************************************************)
(* Batch gradient-descent trainers of fundamental_ml:                      *)
(*   LinearRegression   (linear_regression.ipynb)                          *)
(*   LogisticRegression (logistic_regression.ipynb)                        *)
(*                                                                         *)
(* Numbers.  The notebooks compute in IEEE-754 doubles.  The model         *)
(* computes in exact rational arithmetic: a number is a pair <<n, d>> in   *)
(* lowest terms with d > 0.  The three non-finite doubles are the pairs    *)
(* with d = 0: <<1,0>> = +inf, <<-1,0>> = -inf, <<0,0>> = nan.  Rounding   *)
(* of finite results is not modelled; np.exp and np.log are modelled by    *)
(* tables (see Exp and Log), with the overflow of exp and the absorption   *)
(* of a negligible exp(-z) by 1 + exp(-z) kept.                            *)
(***************************************************************************)
EXTENDS Integers, Sequences, FiniteSets, TLC

\* ------------------------------------------------------------------------
\* Bounds of the model
\* ------------------------------------------------------------------------
\* largest max_iterations a constructor is given
MaxIter == 3
\* largest number of entries (rows times columns) of a design matrix
MaxCells == 4
\* number of fit() calls in one behaviour (each allocates one array)
MaxFits == 2

\* ------------------------------------------------------------------------
\* Numbers
\* ------------------------------------------------------------------------
Abs(i) == IF i < 0 THEN -i ELSE i

RECURSIVE Gcd(_, _)
Gcd(a, b) == IF b = 0 THEN a ELSE Gcd(b, a % b)

Sign(i) == IF i > 0 THEN 1 ELSE IF i < 0 THEN -1 ELSE 0

\* n/d with numerator and denominator divided by g, the denominator positive
Reduce(n, d, g) == <<(Sign(d) * n) \div g, (Sign(d) * d) \div g>>

\* the number n/d (d # 0) in lowest terms
Rat(n, d) == Reduce(n, d, Gcd(Abs(n), Abs(d)))

Lcm(a, b) == (a \div Gcd(a, b)) * b

FromInt(i) == <<i, 1>>
Zero == <<0, 1>>
One == <<1, 1>>
Half == <<1, 2>>
PosInf == <<1, 0>>
NegInf == <<-1, 0>>
NaN == <<0, 0>>

IsFinite(a) == a[2] # 0
IsNaN(a) == a = NaN

RNeg(a) == <<-a[1], a[2]>>

\* a + b for finite a and b, over the common denominator l
AddOver(a, b, l) == Rat(a[1] * (l \div a[2]) + b[1] * (l \div b[2]), l)

\* a + b; inf + (-inf) and anything with nan are nan
RAdd(a, b) ==
  IF IsFinite(a) /\ IsFinite(b) THEN AddOver(a, b, Lcm(a[2], b[2]))
  ELSE IF IsNaN(a) \/ IsNaN(b) THEN NaN
  ELSE IF IsFinite(a) THEN b
  ELSE IF IsFinite(b) THEN a
  ELSE IF a = b THEN a ELSE NaN

RSub(a, b) == RAdd(a, RNeg(b))

\* a * b for finite a and b, with g1 = gcd(num a, den b), g2 = gcd(num b, den a)
MulReduced(a, b, g1, g2) ==
  <<(a[1] \div g1) * (b[1] \div g2), (a[2] \div g2) * (b[2] \div g1)>>

\* a * b; 0 * inf and anything with nan are nan
RMul(a, b) ==
  IF IsFinite(a) /\ IsFinite(b)
  THEN MulReduced(a, b, Gcd(Abs(a[1]), b[2]), Gcd(Abs(b[1]), a[2]))
  ELSE IF IsNaN(a) \/ IsNaN(b) THEN NaN
  ELSE IF a[1] = 0 \/ b[1] = 0 THEN NaN
  ELSE <<Sign(a[1]) * Sign(b[1]), 0>>

\* a / b for b # 0; a / inf = 0 for a finite a, inf / inf is nan
RDiv(a, b) ==
  IF IsFinite(b) THEN RMul(a, Rat(b[2], b[1]))
  ELSE IF IsNaN(b) \/ ~IsFinite(a) THEN NaN ELSE Zero

\* where a stands among the finite numbers: below (-inf), among, above (inf)
Side(a) == IF IsFinite(a) THEN 0 ELSE a[1]

\* n/d < n'/d' for finite numbers, over the denominators divided by g and
\* the numerators divided by h
LessOver(a, b, g, h) ==
  (a[1] \div h) * (b[2] \div g) < (b[1] \div h) * (a[2] \div g)

FiniteLess(a, b) ==
  LessOver(a, b, Gcd(a[2], b[2]),
           IF a[1] = 0 /\ b[1] = 0 THEN 1 ELSE Gcd(Abs(a[1]), Abs(b[1])))

\* a < b and a <= b; every comparison with nan is false
RLess(a, b) ==
  /\ ~IsNaN(a) /\ ~IsNaN(b)
  /\ \/ Side(a) < Side(b)
     \/ IsFinite(a) /\ IsFinite(b) /\ FiniteLess(a, b)
RLeq(a, b) ==
  /\ ~IsNaN(a) /\ ~IsNaN(b)
  /\ \/ Side(a) < Side(b)
     \/ a = b
     \/ IsFinite(a) /\ IsFinite(b) /\ FiniteLess(a, b)

\* a finite a rounded to an integer away from zero: 0 for 0 only, so that
\* the sign of a is kept
RoundAway(a) == Sign(a[1]) * ((Abs(a[1]) + a[2] - 1) \div a[2])

\* ------------------------------------------------------------------------
\* numpy arrays: a vector is a sequence of numbers, a matrix a sequence of
\* rows of equal length
\* ------------------------------------------------------------------------
\* a function on 1..n as the sequence it is (the same value, held as a
\* tuple by the checker)
Array(f) == f \o <<>>

RECURSIVE SumTo(_, _)
SumTo(v, k) == IF k = 0 THEN Zero ELSE RAdd(SumTo(v, k - 1), v[k])

\* np.sum over a vector
Sum(v) == SumTo(v, Len(v))

\* np.mean over a non-empty vector
Mean(v) == RDiv(Sum(v), FromInt(Len(v)))

\* np.zeros(num_features)
Zeros(n) == Array([j \in 1..n |-> Zero])
NumRows(X) == Len(X)
NumCols(X) == Len(X[1])

\* X.T
Transpose(X) ==
  Array([j \in 1..NumCols(X) |-> Array([i \in 1..NumRows(X) |-> X[i][j]])])

\* scalar * matrix
ScaleMat(c, A) ==
  Array([i \in 1..Len(A) |-> Array([j \in 1..Len(A[i]) |-> RMul(c, A[i][j])])])

\* A @ v is defined when the columns of A match the length of v
CanMatVec(A, v) == NumCols(A) = Len(v)

\* A @ v
MatVec(A, v) ==
  Array([i \in 1..NumRows(A) |-> Sum(Array([j \in 1..Len(v) |-> RMul(A[i][j], v[j])]))])

\* vector + scalar, scalar * vector
AddScalar(v, c) == Array([i \in 1..Len(v) |-> RAdd(v[i], c)])
ScaleVec(c, v) == Array([i \in 1..Len(v) |-> RMul(c, v[i])])
\* numpy broadcasting of two vectors: equal lengths, or one of length 1
CanBroadcast(u, v) == Len(u) = Len(v) \/ Len(u) = 1 \/ Len(v) = 1

BLen(u, v) == IF Len(u) >= Len(v) THEN Len(u) ELSE Len(v)
BAt(u, i) == IF Len(u) = 1 THEN u[1] ELSE u[i]

\* u - v, u + v, u * v elementwise under broadcasting
VSub(u, v) == Array([i \in 1..BLen(u, v) |-> RSub(BAt(u, i), BAt(v, i))])
VAdd(u, v) == Array([i \in 1..BLen(u, v) |-> RAdd(BAt(u, i), BAt(v, i))])
VMul(u, v) == Array([i \in 1..BLen(u, v) |-> RMul(BAt(u, i), BAt(v, i))])
\* np.square
Square(v) == Array([i \in 1..Len(v) |-> RMul(v[i], v[i])])
\* 1 - v
OneMinus(v) == Array([i \in 1..Len(v) |-> RSub(One, v[i])])
\* ------------------------------------------------------------------------
\* np.exp and np.log
\* ------------------------------------------------------------------------
\* e^k to the nearest integer, k = 0 .. 6 (entry k + 1)
ExpTable == <<1, 3, 7, 20, 55, 148, 403>>

\* np.exp(x) overflows to +inf from here on (e^709.78 is the largest double)
ExpOverflow == 710
\* e^x for x <= -ExpNegligible is below half an ulp of 1: 1 + e^x is 1
ExpNegligible == 37

\* the entry of ExpTable for |q|, the last one beyond the table
ExpEntry(q) ==
  ExpTable[IF Abs(q) >= Len(ExpTable) THEN Len(ExpTable) ELSE Abs(q) + 1]

\* e^q for an integer q
ExpInt(q) ==
  IF q >= ExpOverflow THEN PosInf
  ELSE IF q <= -ExpNegligible THEN Zero
  ELSE IF q >= 0 THEN FromInt(ExpEntry(q))
  ELSE Rat(1, ExpEntry(q))

\* np.exp(x) as the next operation (1 + .) sees it: for a finite x the
\* table at x rounded away from zero (e^x = 1 for x = 0 only), held at its
\* end values outside the table; e^inf = inf, e^-inf = 0, e^nan = nan
Exp(x) ==
  IF IsFinite(x) THEN ExpInt(RoundAway(x))
  ELSE IF x = NegInf THEN Zero ELSE x

\* -1000 * ln(1 / (E + 1)) and -1000 * ln(E / (E + 1)) for E = ExpTable[k]
LogLowTable == <<693, 1386, 2079, 3045, 4025, 5004, 6001>>
LogHighTable == <<693, 288, 134, 49, 18, 7, 2>>

\* Log with its argument clipped away from 0, as np.log(np.clip(p, 1e-15, 1))
Log_Clipped(p) ==
  IF IsNaN(p) THEN NaN
  ELSE IF p = Zero THEN FromInt(-35)
  ELSE IF p = One THEN Zero
  ELSE IF p[1] = 1
  THEN Rat(-LogLowTable[CHOOSE i \in 1..Len(ExpTable) : ExpTable[i] = p[2] - 1], 1000)
  ELSE Rat(-LogHighTable[CHOOSE i \in 1..Len(ExpTable) : ExpTable[i] = p[2] - 1], 1000)

\* np.log(p) for p in [0, 1]: log(0) = -inf (a warning, no error),
\* log(1) = 0, log(nan) = nan, and the tables for the values the sigmoid
\* takes
Log(p) ==
  IF IsNaN(p) THEN NaN
  ELSE IF p = Zero THEN NegInf
  ELSE IF p = One THEN Zero
  ELSE IF p[1] = 1
  THEN Rat(-LogLowTable[CHOOSE i \in 1..Len(ExpTable) : ExpTable[i] = p[2] - 1], 1000)
  ELSE Rat(-LogHighTable[CHOOSE i \in 1..Len(ExpTable) : ExpTable[i] = p[2] - 1], 1000)

VLog(v) == Array([i \in 1..Len(v) |-> Log(v[i])])
\* ------------------------------------------------------------------------
\* The trainers' methods as functions of what they read
\* ------------------------------------------------------------------------
\* Sigmoid in the form the method has commented out:
\* np.exp(z) / (1 + np.exp(z))
Sigmoid_Overflowing(z) == RDiv(Exp(z), RAdd(One, Exp(z)))

\* LogisticRegression.sigmoid, elementwise: 1 / (1 + np.exp(-z))
Sigmoid(z) == RDiv(One, RAdd(One, Exp(RNeg(z))))

VSigmoid(v) == Array([i \in 1..Len(v) |-> Sigmoid(v[i])])
\* the forward pass: X @ self.coef + self.bias, through the sigmoid for
\* the logistic trainer
Forward(kind, X, coef, bias) ==
  IF kind = "logistic" THEN VSigmoid(AddScalar(MatVec(X, coef), bias))
  ELSE AddScalar(MatVec(X, coef), bias)

\* MSELoss without the square: 0.5 * np.mean(preds - y)
MSELoss_NoSquare(preds, y) == RMul(Half, Mean(VSub(preds, y)))

\* 0.5 * np.mean(np.square(preds - y))
MSELoss(preds, y) == RMul(Half, Mean(Square(VSub(preds, y))))

\* NLLLoss that selects the branch of the label instead of weighting both:
\* -np.mean(np.where(y == 1, np.log(preds), np.log(1 - preds)))
NLLLoss_Selected(preds, y) ==
  RNeg(Mean(Array([i \in 1..BLen(preds, y) |->
    IF BAt(y, i) = One THEN Log(BAt(preds, i)) ELSE Log(RSub(One, BAt(preds, i)))])))

\* -np.mean(y * np.log(preds) + (1 - y) * np.log(1 - preds))
NLLLoss(preds, y) ==
  RNeg(Mean(VAdd(VMul(y, VLog(preds)), VMul(OneMinus(y), VLog(OneMinus(preds))))))

Loss(kind, preds, y) ==
  IF kind = "logistic" THEN NLLLoss(preds, y) ELSE MSELoss(preds, y)

\* CoefStep without the division by m
CoefStep_NotAveraged(lr, m, X, preds, y) ==
  MatVec(ScaleMat(lr, Transpose(X)), VSub(preds, y))

\* the right-hand side of  self.coef -= self.learning_rate / m * X.T @ (preds - y)
\* (Python groups it as ((learning_rate / m) * X.T) @ (preds - y))
CoefStep(lr, m, X, preds, y) ==
  MatVec(ScaleMat(RDiv(lr, FromInt(m)), Transpose(X)), VSub(preds, y))

\* the right-hand side of  self.bias -= self.learning_rate * np.mean(preds - y)
BiasStep(lr, preds, y) == RMul(lr, Mean(VSub(preds, y)))

\* preds - y (and y * np.log(preds)) raise ValueError unless the shapes
\* broadcast; X.T @ (preds - y) raises ValueError unless preds - y has m
\* entries
IterRaises(X, y) ==
  \/ ~(Len(y) = NumRows(X) \/ Len(y) = 1 \/ NumRows(X) = 1)
  \/ (IF Len(y) >= NumRows(X) THEN Len(y) ELSE NumRows(X)) # NumRows(X)

\* IterationFrom with the bias updated from a forward pass over the updated
\* coefficients
IterationFrom_BiasSeesNewCoef(preds, kind, lr, m, X, y, coef, bias) ==
  [loss |-> Loss(kind, preds, y),
   coef |-> VSub(coef, CoefStep(lr, m, X, preds, y)),
   bias |-> RSub(bias, BiasStep(lr,
              Forward(kind, X, VSub(coef, CoefStep(lr, m, X, preds, y)), bias), y))]

\* IterationFrom with the loss measured after the updates
IterationFrom_LossAfterUpdate(preds, kind, lr, m, X, y, coef, bias) ==
  [loss |-> Loss(kind, Forward(kind, X, VSub(coef, CoefStep(lr, m, X, preds, y)),
                               RSub(bias, BiasStep(lr, preds, y))), y),
   coef |-> VSub(coef, CoefStep(lr, m, X, preds, y)),
   bias |-> RSub(bias, BiasStep(lr, preds, y))]

\* IterationFrom with the logistic weights updated by the sum over the
\* samples, not divided by m
IterationFrom_LogisticSumGradient(preds, kind, lr, m, X, y, coef, bias) ==
  [loss |-> Loss(kind, preds, y),
   coef |-> VSub(coef, CoefStep(lr, IF kind = "logistic" THEN 1 ELSE m, X, preds, y)),
   bias |-> RSub(bias, BiasStep(lr, preds, y))]

\* IterationFrom with += for -= in both updates
IterationFrom_Ascent(preds, kind, lr, m, X, y, coef, bias) ==
  [loss |-> Loss(kind, preds, y),
   coef |-> VAdd(coef, CoefStep(lr, m, X, preds, y)),
   bias |-> RAdd(bias, BiasStep(lr, preds, y))]

\* the loss appended and the parameters after the two in-place updates of
\* an iteration whose forward pass gave preds
IterationFrom(preds, kind, lr, m, X, y, coef, bias) ==
  [loss |-> Loss(kind, preds, y),
   coef |-> VSub(coef, CoefStep(lr, m, X, preds, y)),
   bias |-> RSub(bias, BiasStep(lr, preds, y))]

\* the body of the loop of fit() when nothing raises
Iteration(kind, lr, m, X, y, coef, bias) ==
  IterationFrom(Forward(kind, X, coef, bias), kind, lr, m, X, y, coef, bias)

\* LoopDone with a convergence check: also over once a loss repeats
LoopDone_Converged(f) ==
  \/ f.i >= f.iters
  \/ f.i >= 2 /\ f.losses[f.i] = f.losses[f.i - 1]

\* LoopDone for a loop that tests after its body
LoopDone_DoWhile(f) == f.i >= f.iters /\ f.i >= 1

\* for i in range(self.max_iterations): the loop is over after iters passes
LoopDone(f) == f.i >= f.iters

\* PredictResult without the bias
PredictResult_NoBias(kind, X, coef, bias) == Forward(kind, X, coef, Zero)

\* PredictResult for the first row only
PredictResult_FirstRow(kind, X, coef, bias) == Forward(kind, <<X[1]>>, coef, bias)

\* the value of predict(X) on parameters that fit X
PredictResult(kind, X, coef, bias) == Forward(kind, X, coef, bias)

\* ------------------------------------------------------------------------
\* State
\* ------------------------------------------------------------------------
Inst == {1, 2}
Kinds == {"linear", "logistic"}

VARIABLES
  \* models[i]: the attributes of model instance i.  coef is a reference
  \* into heap, 0 while the attribute does not exist (initialize has not
  \* run); bias is meaningful once coef # 0
  models,
  \* the arrays np.zeros has allocated, by reference
  heap,
  \* the activation of fit() in progress, or NoFrame
  frame,
  \* what the last finished call returned or raised, and the class labels
  \* the caller has made of the predictions; cleared on a call
  outcome,
  \* history[i]: of the last fit() that returned on instance i, the
  \* arguments, the parameters after each iteration and the values returned
  history

vars == <<models, heap, frame, outcome, history>>

NoFrame ==
  [active |-> FALSE, inst |-> 0, X |-> <<>>, y |-> <<>>, m |-> 0, n |-> 0,
   iters |-> 0, i |-> 0, losses |-> <<>>, steps |-> <<>>]

NoOutcome ==
  [op |-> "none", inst |-> 0, status |-> "none", X |-> <<>>, y |-> <<>>,
   losses |-> <<>>, coef |-> 0, bias |-> Zero, preds |-> <<>>, labels |-> <<>>]

NoHistory ==
  [fitted |-> FALSE, X |-> <<>>, y |-> <<>>, losses |-> <<>>, steps |-> <<>>,
   coef |-> <<>>, bias |-> Zero]

\* ------------------------------------------------------------------------
\* Inputs
\* ------------------------------------------------------------------------
LearningRates == {Rat(1, 2), FromInt(1)}

\* learning rates that drive the logistic scores beyond the range in which
\* the sigmoid stays inside (0, 1)
SatLearningRates == {FromInt(40), FromInt(2000)}

XVals == {FromInt(1), FromInt(2)}
YVals == {Zero, One}

Vectors(vals, len) == [1..len -> vals]
Matrices(m, n) == [1..m -> Vectors(XVals, n)]

\* every design matrix within the bound
Shapes == {s \in (1..MaxCells) \X (1..MaxCells) : s[1] * s[2] <= MaxCells}
DesignMatrices == UNION {Matrices(s[1], s[2]) : s \in Shapes}

\* the targets passed with a matrix of m rows: every vector of m entries,
\* and vectors of ones with one entry only and with one entry too many
Targets(m) ==
  Vectors(YVals, m) \cup {Array([i \in 1..k |-> One]) : k \in {1, m + 1} \ {m}}

\* the test matrices of an experiment with n features, of one row and of
\* three
TestMatrices(n) ==
  {Array([i \in 1..m |-> Array([j \in 1..n |-> FromInt(i + j)])]) : m \in {1, 3}}

\* the data of the experiments that share two instances: two features or
\* one, a target of one entry (broadcast) and one of three (no broadcast)
X21 == <<<<One>>, <<FromInt(2)>>>>
X22 == <<<<One, FromInt(2)>>, <<FromInt(2), One>>>>

Datasets ==
  { [X |-> X21, y |-> <<One, Zero>>],
    [X |-> X22, y |-> <<Zero, One>>],
    [X |-> X21, y |-> <<One>>],
    [X |-> X21, y |-> <<One, Zero, One>>] }

PredictInputs == {X21, X22}

\* ------------------------------------------------------------------------
\* Operations
\* ------------------------------------------------------------------------
\* __init__(self, max_iterations, learning_rate): no coef, no bias yet
Construct(kind, max_iterations, learning_rate) ==
  [kind |-> kind, max_iterations |-> max_iterations,
   learning_rate |-> learning_rate, coef |-> 0, bias |-> Zero]

\* two instances, of either class, constructed with the same arguments
Init ==
  /\ \E k \in [Inst -> Kinds], T \in 0..MaxIter, lr \in LearningRates :
       models = [i \in Inst |-> Construct(k[i], T, lr)]
  /\ heap = <<>>
  /\ frame = NoFrame
  /\ outcome = NoOutcome
  /\ history = [i \in Inst |-> NoHistory]

\* Initialize as a warm start: the coefficients of the last fit are kept
\* when their number fits
Initialize_KeepExisting(i, n) ==
  IF models[i].coef # 0 /\ Len(heap[models[i].coef]) = n
  THEN /\ heap' = Append(heap, heap[models[i].coef])
       /\ models' = [models EXCEPT ![i].coef = Len(heap) + 1]
  ELSE /\ heap' = Append(heap, Zeros(n))
       /\ models' = [models EXCEPT ![i].coef = Len(heap) + 1, ![i].bias = Zero]

\* Initialize with np.empty: the new array holds what the array allocated
\* before it held
Initialize_Empty(i, n) ==
  /\ heap' = Append(heap, IF heap # <<>> /\ Len(heap[Len(heap)]) = n
                          THEN heap[Len(heap)] ELSE Zeros(n))
  /\ models' = [models EXCEPT ![i].coef = Len(heap) + 1, ![i].bias = Zero]

\* Initialize with coef and bias as attributes of the class
Initialize_ClassLevel(i, n) ==
  /\ heap' = Append(heap, Zeros(n))
  /\ models' = [j \in Inst |-> [models[j] EXCEPT !.coef = Len(heap) + 1, !.bias = Zero]]

\* Initialize with np.ones
Initialize_Ones(i, n) ==
  /\ heap' = Append(heap, Array([j \in 1..n |-> One]))
  /\ models' = [models EXCEPT ![i].coef = Len(heap) + 1, ![i].bias = Zero]

\* Initialize only when the instance has no coefficients yet
Initialize_OnlyIfMissing(i, n) ==
  IF models[i].coef # 0
  THEN /\ heap' = Append(heap, heap[models[i].coef])
       /\ models' = [models EXCEPT ![i].coef = Len(heap) + 1]
  ELSE /\ heap' = Append(heap, Zeros(n))
       /\ models' = [models EXCEPT ![i].coef = Len(heap) + 1, ![i].bias = Zero]

\* Initialize that zeroes the existing array in place, self.coef.fill(0),
\* when it has the right length
Initialize_InPlace(i, n) ==
  IF models[i].coef # 0 /\ Len(heap[models[i].coef]) = n
  THEN /\ heap' = [heap EXCEPT ![models[i].coef] = Zeros(n)]
       /\ models' = [models EXCEPT ![i].bias = Zero]
  ELSE /\ heap' = Append(heap, Zeros(n))
       /\ models' = [models EXCEPT ![i].coef = Len(heap) + 1, ![i].bias = Zero]

\* initialize(self, num_features): a fresh array of zeros and bias 0
Initialize(i, n) ==
  /\ heap' = Append(heap, Zeros(n))
  /\ models' = [models EXCEPT ![i].coef = Len(heap) + 1, ![i].bias = Zero]

\* FitEnter with the shape unpacked the other way round: n, m = X.shape
FitEnter_ShapeSwapped(i, X, y) ==
  /\ ~frame.active
  /\ Initialize(i, NumRows(X))
  /\ frame' = [active |-> TRUE, inst |-> i, X |-> X, y |-> y,
               m |-> NumCols(X), n |-> NumRows(X),
               iters |-> models[i].max_iterations, i |-> 0,
               losses |-> <<>>, steps |-> <<>>]
  /\ outcome' = NoOutcome
  /\ UNCHANGED history

\* fit(self, X, y) up to the loop: m, n = X.shape; self.initialize(n); losses = []
FitEnter(i, X, y) ==
  /\ ~frame.active
  /\ Initialize(i, NumCols(X))
  /\ frame' = [active |-> TRUE, inst |-> i, X |-> X, y |-> y,
               m |-> NumRows(X), n |-> NumCols(X),
               iters |-> models[i].max_iterations, i |-> 0,
               losses |-> <<>>, steps |-> <<>>]
  /\ outcome' = NoOutcome
  /\ UNCHANGED history

\* one pass of the loop: the loss is appended, self.coef is updated in
\* place and self.bias is rebound
Store(it) ==
  /\ heap' = [heap EXCEPT ![models[frame.inst].coef] = it.coef]
  /\ models' = [models EXCEPT ![frame.inst].bias = it.bias]
  /\ frame' = [frame EXCEPT !.i = @ + 1, !.losses = Append(@, it.loss),
                            !.steps = Append(@, <<it.coef, it.bias>>)]

\* FitIter with a step size divided by max_iterations
FitIter_ScaledByIterations ==
  /\ frame.active
  /\ ~LoopDone(frame)
  /\ ~IterRaises(frame.X, frame.y)
  /\ Store(Iteration(models[frame.inst].kind,
                     RDiv(models[frame.inst].learning_rate, FromInt(frame.iters)),
                     frame.m, frame.X, frame.y,
                     heap[models[frame.inst].coef], models[frame.inst].bias))
  /\ UNCHANGED <<outcome, history>>

FitIter ==
  /\ frame.active
  /\ ~LoopDone(frame)
  /\ ~IterRaises(frame.X, frame.y)
  /\ Store(Iteration(models[frame.inst].kind, models[frame.inst].learning_rate,
                     frame.m, frame.X, frame.y,
                     heap[models[frame.inst].coef], models[frame.inst].bias))
  /\ UNCHANGED <<outcome, history>>

\* a pass whose array arithmetic raises ValueError: fit() is left with the
\* parameters as they are, and nothing is returned
FitRaise ==
  /\ frame.active
  /\ ~LoopDone(frame)
  /\ IterRaises(frame.X, frame.y)
  /\ outcome' = [NoOutcome EXCEPT !.op = "fit", !.inst = frame.inst,
                                  !.status = "ValueError", !.X = frame.X, !.y = frame.y]
  /\ frame' = NoFrame
  /\ UNCHANGED <<models, heap, history>>

\* return losses, self.coef, self.bias
FitReturn ==
  /\ frame.active
  /\ LoopDone(frame)
  /\ LET me == models[frame.inst]
     IN  /\ outcome' = [NoOutcome EXCEPT !.op = "fit", !.inst = frame.inst,
                          !.status = "ok", !.X = frame.X, !.y = frame.y,
                          !.losses = frame.losses, !.coef = me.coef, !.bias = me.bias]
         /\ history' = [history EXCEPT ![frame.inst] =
                          [fitted |-> TRUE, X |-> frame.X, y |-> frame.y,
                           losses |-> frame.losses, steps |-> frame.steps,
                           coef |-> heap[me.coef], bias |-> me.bias]]
  /\ frame' = NoFrame
  /\ UNCHANGED <<models, heap>>

\* PredictValue with zeros standing in for parameters that do not exist
PredictValue_ImplicitZeros(me, X, arrays) ==
  IF me.coef = 0
  THEN [status |-> "ok", preds |-> PredictResult(me.kind, X, Zeros(NumCols(X)), Zero)]
  ELSE IF ~CanMatVec(X, arrays[me.coef])
  THEN [status |-> "ValueError", preds |-> <<>>]
  ELSE [status |-> "ok", preds |-> PredictResult(me.kind, X, arrays[me.coef], me.bias)]

\* the first k entries of every row of X
FirstCols(X, k) == Array([i \in 1..Len(X) |-> SubSeq(X[i], 1, k)])

\* PredictValue that cuts X and the coefficients to the columns they share
PredictValue_Truncating(me, X, arrays) ==
  IF me.coef = 0
  THEN [status |-> "AttributeError", preds |-> <<>>]
  ELSE IF NumCols(X) <= Len(arrays[me.coef])
  THEN [status |-> "ok",
        preds |-> PredictResult(me.kind, X, SubSeq(arrays[me.coef], 1, NumCols(X)), me.bias)]
  ELSE [status |-> "ok",
        preds |-> PredictResult(me.kind, FirstCols(X, Len(arrays[me.coef])),
                                arrays[me.coef], me.bias)]

\* what predict(X) does on the instance with attributes me: AttributeError
\* without self.coef, ValueError when the columns of X do not match
\* self.coef, the predictions otherwise
PredictValue(me, X, arrays) ==
  IF me.coef = 0
  THEN [status |-> "AttributeError", preds |-> <<>>]
  ELSE IF ~CanMatVec(X, arrays[me.coef])
  THEN [status |-> "ValueError", preds |-> <<>>]
  ELSE [status |-> "ok", preds |-> PredictResult(me.kind, X, arrays[me.coef], me.bias)]

Deliver(i, X, v) ==
  outcome' = [NoOutcome EXCEPT !.op = "predict", !.inst = i, !.X = X,
                               !.status = v.status, !.preds = v.preds]

\* predict(self, X): nothing is assigned
Predict(i, X) ==
  /\ ~frame.active
  /\ Deliver(i, X, PredictValue(models[i], X, heap))
  /\ UNCHANGED <<models, heap, frame, history>>

\* (y_preds > 0.5).astype(int)
Classify(preds) == Array([r \in 1..Len(preds) |-> IF RLess(Half, preds[r]) THEN 1 ELSE 0])

\* the caller of LogisticRegression.predict turns the probabilities into
\* class labels
Threshold ==
  /\ outcome.op = "predict" /\ outcome.status = "ok"
  /\ models[outcome.inst].kind = "logistic"
  /\ outcome.labels = <<>>
  /\ outcome' = [outcome EXCEPT !.labels = Classify(outcome.preds)]
  /\ UNCHANGED <<models, heap, frame, history>>

\* two instances, any order of calls
Next ==
  \/ Len(heap) < MaxFits /\ \E i \in Inst, d \in Datasets : FitEnter(i, d.X, d.y)
  \/ FitIter
  \/ FitRaise
  \/ FitReturn
  \/ \E i \in Inst, X \in PredictInputs : Predict(i, X)

Spec == Init /\ [][Next]_vars

\* one experiment on one instance, as the notebooks run it: construct, fit
\* on any data, predict on test data, threshold the probabilities; the
\* learning rate is 1/2
InitFit ==
  /\ Init
  /\ models[2].kind = models[1].kind
  /\ models[1].learning_rate = Half

NextFit ==
  \/ heap = <<>> /\ \E X \in DesignMatrices : \E y \in Targets(NumRows(X)) : FitEnter(1, X, y)
  \/ FitIter
  \/ FitRaise
  \/ FitReturn
  \/ outcome.op = "fit" /\ \E X \in TestMatrices(NumCols(outcome.X)) : Predict(1, X)
  \/ Threshold

SpecFit == InitFit /\ [][NextFit]_vars

\* the same experiment on a LogisticRegression constructed with a large
\* learning rate
InitSat ==
  /\ \E T \in 0..MaxIter, lr \in SatLearningRates :
       models = [i \in Inst |-> Construct("logistic", T, lr)]
  /\ heap = <<>>
  /\ frame = NoFrame
  /\ outcome = NoOutcome
  /\ history = [i \in Inst |-> NoHistory]

SpecSat == InitSat /\ [][NextFit]_vars

\* the regression experiment: features of zero mean and unit variance in
\* the population (values -1 and 1), a LinearRegression with a learning
\* rate of 1 at most
StandardVals == {FromInt(-1), FromInt(1)}
SmallLearningRates == {Rat(1, 4), Rat(1, 2), FromInt(1)}

\* four samples of two features whose columns have mean 0, variance 1 and
\* no correlation
X42 ==
  << <<FromInt(-1), FromInt(-1)>>, <<FromInt(-1), FromInt(1)>>,
     <<FromInt(1), FromInt(-1)>>, <<FromInt(1), FromInt(1)>> >>

StandardMatrices ==
  UNION {[1..s[1] -> Vectors(StandardVals, s[2])] : s \in Shapes} \cup {X42}

InitLin ==
  /\ \E T \in 0..MaxIter, lr \in SmallLearningRates :
       models = [i \in Inst |-> Construct("linear", T, lr)]
  /\ heap = <<>>
  /\ frame = NoFrame
  /\ outcome = NoOutcome
  /\ history = [i \in Inst |-> NoHistory]

NextLin ==
  \/ heap = <<>> /\ \E X \in StandardMatrices : \E y \in Targets(NumRows(X)) : FitEnter(1, X, y)
  \/ FitIter
  \/ FitRaise
  \/ FitReturn

SpecLin == InitLin /\ [][NextLin]_vars

\* ------------------------------------------------------------------------
\* Properties
\* ------------------------------------------------------------------------
\* the target has one entry per row of the design matrix
Valid(X, y) == Len(y) = NumRows(X)

IsLinear(i) == models[i].kind = "linear"

\* the parameters after k updates of a fit that started from n zeros
ParamsAt(steps, n, k) == IF k = 0 THEN <<[j \in 1..n |-> Zero], Zero>> ELSE steps[k]

\* yhat_i - y_i for yhat = X.w + b, written out per sample
Residual(X, y, w, b, i) ==
  RSub(RAdd(Sum(Array([j \in 1..Len(w) |-> RMul(X[i][j], w[j])])), b), y[i])

\* w - (lr / m) * Xt.(yhat - y), written out per feature
DescentCoef(lr, X, y, w, b) ==
  Array([j \in 1..Len(w) |->
    RSub(w[j], RMul(RDiv(lr, FromInt(Len(X))),
                    Sum(Array([i \in 1..Len(X) |-> RMul(X[i][j], Residual(X, y, w, b, i))]))))])

\* b - lr * mean(yhat - y)
DescentBias(lr, X, y, w, b) ==
  RSub(b, RMul(lr, RDiv(Sum(Array([i \in 1..Len(X) |-> Residual(X, y, w, b, i)])),
                        FromInt(Len(X)))))

Sq(a) == RMul(a, a)

\* 0.5 * mean((X.w + b - y)^2)
HalfMSE(X, y, w, b) ==
  RDiv(Sum(Array([i \in 1..Len(X) |-> Sq(Residual(X, y, w, b, i))])), FromInt(2 * Len(X)))

C2_LinearUpdate ==
  (frame.active /\ IsLinear(frame.inst) /\ Valid(frame.X, frame.y)) =>
    /\ \A k \in 1..Len(frame.steps) :
         /\ frame.steps[k][1] =
              DescentCoef(models[frame.inst].learning_rate, frame.X, frame.y,
                          ParamsAt(frame.steps, frame.n, k - 1)[1],
                          ParamsAt(frame.steps, frame.n, k - 1)[2])
         /\ frame.steps[k][2] =
              DescentBias(models[frame.inst].learning_rate, frame.X, frame.y,
                          ParamsAt(frame.steps, frame.n, k - 1)[1],
                          ParamsAt(frame.steps, frame.n, k - 1)[2])
    /\ Len(frame.steps) >= 1 =>
         /\ \A j \in 1..frame.n :
              frame.steps[1][1][j] =
                RMul(RDiv(models[frame.inst].learning_rate, FromInt(frame.m)),
                     Sum(Array([i \in 1..frame.m |-> RMul(frame.X[i][j], frame.y[i])])))
         /\ frame.steps[1][2] =
              RMul(models[frame.inst].learning_rate, RDiv(Sum(frame.y), FromInt(frame.m)))
    /\ frame.i >= 1 =>
         /\ heap[models[frame.inst].coef] = frame.steps[frame.i][1]
         /\ models[frame.inst].bias = frame.steps[frame.i][2]

\* a linear fit on two features and two samples after a second update in
\* which both the weights and the bias moved
C2_Witness ==
  /\ frame.active /\ IsLinear(frame.inst) /\ Valid(frame.X, frame.y)
  /\ frame.n >= 2 /\ frame.m >= 2
  /\ Len(frame.steps) >= 2
  /\ frame.steps[2][1] # frame.steps[1][1]
  /\ frame.steps[2][2] # frame.steps[1][2]

\* C3: the loss trace LinearRegression.fit returns is in iteration order;
\* entry k is 0.5 * mean((X.w + b - y)^2) at the parameters after k - 1
\* updates, so the first is 0.5 * mean(y^2) and the last is measured before
\* the final update
C3_LinearLossTrace ==
  (outcome.op = "fit" /\ outcome.status = "ok" /\ IsLinear(outcome.inst)
     /\ Valid(outcome.X, outcome.y)) =>
    /\ Len(outcome.losses) = Len(history[outcome.inst].steps)
    /\ \A k \in 1..Len(outcome.losses) :
         outcome.losses[k] =
           HalfMSE(outcome.X, outcome.y,
                   ParamsAt(history[outcome.inst].steps, NumCols(outcome.X), k - 1)[1],
                   ParamsAt(history[outcome.inst].steps, NumCols(outcome.X), k - 1)[2])
    /\ Len(outcome.losses) >= 1 =>
         outcome.losses[1] =
           RDiv(Sum(Array([i \in 1..Len(outcome.y) |-> Sq(outcome.y[i])])),
                FromInt(2 * Len(outcome.y)))

\* a returned trace whose last entry is not the loss of the returned
\* parameters
C3_Witness ==
  /\ outcome.op = "fit" /\ outcome.status = "ok" /\ IsLinear(outcome.inst)
  /\ Valid(outcome.X, outcome.y)
  /\ Len(outcome.losses) >= 2
  /\ outcome.losses[Len(outcome.losses)] #
       HalfMSE(outcome.X, outcome.y, heap[outcome.coef], outcome.bias)
  /\ outcome.losses[1] # outcome.losses[2]

\* C4: with max_iterations = 0, fit returns an empty loss trace, n zeros
\* and bias 0, and the model holds exactly those parameters
C4_ZeroIterations ==
  \A i \in Inst :
    models[i].max_iterations = 0 =>
      /\ (outcome.op = "fit" /\ outcome.inst = i) =>
           /\ outcome.status = "ok"
           /\ outcome.losses = <<>>
           /\ outcome.coef = models[i].coef
           /\ Len(heap[outcome.coef]) = NumCols(outcome.X)
           /\ outcome.bias = Zero
      /\ models[i].coef # 0 =>
           /\ \A j \in 1..Len(heap[models[i].coef]) : heap[models[i].coef][j] = Zero
           /\ models[i].bias = Zero

\* a zero-iteration fit on two or more features has returned
C4_Witness ==
  /\ outcome.op = "fit" /\ outcome.status = "ok"
  /\ models[outcome.inst].max_iterations = 0
  /\ NumCols(outcome.X) >= 2
  /\ Len(heap[outcome.coef]) = NumCols(outcome.X)

\* C7: on a fitted model, predict(X) for X with the trained number of
\* columns returns one value per row of X, in row order
C7_PredictLength ==
  (outcome.op = "predict" /\ models[outcome.inst].coef # 0
     /\ NumCols(outcome.X) = Len(heap[models[outcome.inst].coef])) =>
    /\ outcome.status = "ok"
    /\ Len(outcome.preds) = NumRows(outcome.X)
    /\ \A r \in 1..NumRows(outcome.X) :
         outcome.preds[r] =
           Forward(models[outcome.inst].kind, <<outcome.X[r]>>,
                   heap[models[outcome.inst].coef], models[outcome.inst].bias)[1]

\* a prediction for three rows, after training on fewer, with differing values
C7_Witness ==
  /\ outcome.op = "predict" /\ outcome.status = "ok"
  /\ NumRows(outcome.X) = 3
  /\ NumRows(history[outcome.inst].X) < 3
  /\ Len(outcome.preds) = 3
  /\ outcome.preds[1] # outcome.preds[3]

\* the loss trace and the parameters of a fit of k iterations from the
\* parameters (coef, bias), run to its end
RECURSIVE Run(_, _, _, _, _, _, _, _)
RunOn(it, kind, lr, X, y, losses, k) ==
  Run(kind, lr, X, y, it.coef, it.bias, Append(losses, it.loss), k - 1)

Run(kind, lr, X, y, coef, bias, losses, k) ==
  IF k = 0 THEN [losses |-> losses, coef |-> coef, bias |-> bias]
  ELSE RunOn(Iteration(kind, lr, Len(X), X, y, coef, bias), kind, lr, X, y, losses, k)

\* what fit(X, y) returns on a freshly constructed instance
FreshFit(kind, T, lr, X, y) ==
  Run(kind, lr, X, y, [j \in 1..NumCols(X) |-> Zero] \o <<>>, Zero, <<>>, T)

\* C5: whatever fits were made on the instance before, fit(X, y) returns
\* the loss trace, weights and bias that a freshly constructed instance
\* with the same hyperparameters returns
C5_FitStartsFromZero ==
  (outcome.op = "fit" /\ outcome.status = "ok") =>
    [losses |-> outcome.losses, coef |-> heap[outcome.coef], bias |-> outcome.bias]
      = FreshFit(models[outcome.inst].kind, models[outcome.inst].max_iterations,
                 models[outcome.inst].learning_rate, outcome.X, outcome.y)

\* a second fit on an instance whose first fit, on a different number of
\* features, left trained parameters
C5_Witness ==
  /\ outcome.op = "fit" /\ outcome.status = "ok"
  /\ models[outcome.inst].max_iterations >= 1
  /\ Len(heap) = 2
  /\ \A j \in Inst \ {outcome.inst} : models[j].coef = 0
  /\ Len(heap[1]) # Len(heap[2])
  /\ \E j \in 1..Len(heap[1]) : heap[1][j] # Zero
  /\ \E j \in 1..Len(heap[2]) : heap[2][j] # Zero

\* C6: two instances of the same class and hyperparameters, fitted on the
\* same X and y, went through the same parameters after every iteration
\* and returned the same loss trace and parameters
C6_Deterministic ==
  \A a, b \in Inst :
    (/\ history[a].fitted /\ history[b].fitted
     /\ models[a].kind = models[b].kind
     /\ models[a].max_iterations = models[b].max_iterations
     /\ models[a].learning_rate = models[b].learning_rate
     /\ history[a].X = history[b].X /\ history[a].y = history[b].y)
    => history[a] = history[b]

\* two instances after the same fit of two or more iterations that moved
\* the parameters
C6_Witness ==
  /\ history[1].fitted /\ history[2].fitted
  /\ models[1].kind = models[2].kind
  /\ history[1].X = history[2].X /\ history[1].y = history[2].y
  /\ Len(history[1].steps) >= 2
  /\ history[1].steps[1] # history[1].steps[2]
  /\ models[1].coef # models[2].coef

\* the prediction X.w + b for row r, written out
LinearPrediction(X, w, b, r) ==
  RAdd(Sum(Array([j \in 1..Len(w) |-> RMul(X[r][j], w[j])])), b)

\* C8: predict assigns nothing (weights, bias and hyperparameters of every
\* instance stay as they are), and LinearRegression.predict returns
\* X.w + b for the parameters the instance holds
C8_PredictReadOnly ==
  [][outcome'.op = "predict" =>
       /\ models' = models
       /\ heap' = heap
       /\ frame' = frame
       /\ (outcome'.status = "ok" /\ IsLinear(outcome'.inst)) =>
            /\ Len(outcome'.preds) = NumRows(outcome'.X)
            /\ \A r \in 1..NumRows(outcome'.X) :
                 outcome'.preds[r] =
                   LinearPrediction(outcome'.X, heap[models[outcome'.inst].coef],
                                    models[outcome'.inst].bias, r)]_vars

\* a linear model with a non-zero bias has predicted twice or more rows
C8_Witness ==
  /\ outcome.op = "predict" /\ outcome.status = "ok" /\ IsLinear(outcome.inst)
  /\ models[outcome.inst].bias # Zero
  /\ NumRows(outcome.X) >= 2
  /\ outcome.preds[1] # outcome.preds[2]

Hyper(me) == <<me.kind, me.max_iterations, me.learning_rate>>

\* C9: a fit on one instance changes that instance's weights and bias
\* only: X and y stay as passed, no hyperparameter of any instance changes,
\* and the parameters of every other instance stay as they are
C9_FitFrame ==
  [][/\ \A i \in Inst : Hyper(models'[i]) = Hyper(models[i])
     /\ frame'.active =>
          \A j \in Inst \ {frame'.inst} :
            /\ models'[j] = models[j]
            /\ history'[j] = history[j]
            /\ models[j].coef # 0 => heap'[models[j].coef] = heap[models[j].coef]
     /\ (frame.active /\ frame'.active) => (frame'.X = frame.X /\ frame'.y = frame.y)
     /\ (frame.active /\ ~frame'.active) =>
          /\ outcome'.X = frame.X /\ outcome'.y = frame.y
          /\ models' = models /\ heap' = heap
          /\ \A j \in Inst \ {frame.inst} : history'[j] = history[j]]_vars

\* a fit has updated its instance while the other instance holds trained
\* parameters
C9_Witness ==
  /\ frame.active /\ frame.i >= 1
  /\ \E j \in Inst \ {frame.inst} :
       /\ models[j].coef # 0
       /\ history[j].fitted
       /\ \E c \in 1..Len(heap[models[j].coef]) : heap[models[j].coef][c] # Zero
  /\ \E c \in 1..Len(heap[models[frame.inst].coef]) :
       heap[models[frame.inst].coef][c] # Zero

\* C10: predict on an instance on which fit was never called raises an
\* error and returns no predictions
C10_PredictBeforeFit ==
  /\ \A i \in Inst :
       models[i].coef = 0 => (/\ ~history[i].fitted
                              /\ ~(frame.active /\ frame.inst = i)
                              /\ ~(outcome.op = "fit" /\ outcome.inst = i))
  /\ (outcome.op = "predict" /\ models[outcome.inst].coef = 0) =>
       (outcome.status = "AttributeError" /\ outcome.preds = <<>>)

\* predict has failed on an instance never fitted, next to a fitted one
C10_Witness ==
  /\ outcome.op = "predict" /\ outcome.status = "AttributeError"
  /\ models[outcome.inst].coef = 0
  /\ \E j \in Inst : history[j].fitted

\* C11: fit(X, y) with a y whose length is not the number of rows of X
\* raises an error whatever the length of y is: no iteration runs on such
\* a pair, and no loss trace or parameters are returned
C11_LengthMismatchFails ==
  /\ (frame.active /\ ~Valid(frame.X, frame.y)) => frame.i = 0
  /\ (outcome.op = "fit" /\ ~Valid(outcome.X, outcome.y)) =>
       (outcome.status # "ok" /\ outcome.losses = <<>> /\ outcome.coef = 0)

\* C12: predict(X) on a model whose coefficients number otherwise than
\* the columns of X raises an error and returns no predictions, and the
\* call leaves the parameters of every instance as they were
C12_PredictColumnMismatch ==
  [][(/\ outcome'.op = "predict"
      /\ models[outcome'.inst].coef # 0
      /\ NumCols(outcome'.X) # Len(heap[models[outcome'.inst].coef]))
     => /\ outcome'.status = "ValueError"
        /\ outcome'.preds = <<>>
        /\ models' = models
        /\ heap' = heap]_vars

\* a fitted and trained instance has refused a matrix of another width
C12_Witness ==
  /\ outcome.op = "predict" /\ outcome.status = "ValueError"
  /\ history[outcome.inst].fitted
  /\ Len(history[outcome.inst].steps) >= 1
  /\ heap[models[outcome.inst].coef] = history[outcome.inst].coef
  /\ \E j \in 1..Len(history[outcome.inst].coef) : history[outcome.inst].coef[j] # Zero
  /\ NumCols(outcome.X) # Len(history[outcome.inst].coef)

\* C13: a trainer whose max_iterations or learning_rate is not positive
\* raises a configuration error at construction or when fit is called: no
\* fit on such an instance runs to its return
C13_ConfigRejected ==
  \A i \in Inst :
    (models[i].max_iterations <= 0 \/ ~RLess(Zero, models[i].learning_rate)) =>
      ~(outcome.op = "fit" /\ outcome.inst = i /\ outcome.status = "ok")

\* the score x_i.w + b of sample i, written out
Score(X, w, b, i) == RAdd(Sum(Array([j \in 1..Len(w) |-> RMul(X[i][j], w[j])])), b)

\* yhat - y of a trainer at the parameters (w, b): yhat is the score for
\* the linear trainer and its sigmoid for the logistic one
ResidualOf(kind, X, y, w, b) ==
  Array([i \in 1..Len(X) |->
    RSub(IF kind = "logistic" THEN Sigmoid(Score(X, w, b, i)) ELSE Score(X, w, b, i),
         y[i])])

\* (w - (lr / m) * Xt.r, b - lr * mean(r)) for a residual vector r
StepFrom(lr, X, w, b, r) ==
  << Array([j \in 1..Len(w) |->
       RSub(w[j], RMul(RDiv(lr, FromInt(Len(X))),
                       Sum(Array([i \in 1..Len(X) |-> RMul(X[i][j], r[i])]))))]),
     RSub(b, RMul(lr, RDiv(Sum(r), FromInt(Len(X))))) >>

\* C14: every iteration of LogisticRegression.fit replaces (w, b) by
\* (w - (lr/m) Xt.(yhat - y), b - lr mean(yhat - y)) with yhat = sigmoid(X.w + b)
\* taken once from the parameters at its start; the step is the same
\* function of the residual, X and the learning rate as the linear
\* trainer's
C14_LogisticUpdate ==
  (frame.active /\ Valid(frame.X, frame.y)) =>
    \A k \in 1..Len(frame.steps) :
      frame.steps[k] =
        StepFrom(models[frame.inst].learning_rate, frame.X,
                 ParamsAt(frame.steps, frame.n, k - 1)[1],
                 ParamsAt(frame.steps, frame.n, k - 1)[2],
                 ResidualOf(models[frame.inst].kind, frame.X, frame.y,
                            ParamsAt(frame.steps, frame.n, k - 1)[1],
                            ParamsAt(frame.steps, frame.n, k - 1)[2]))

\* a logistic fit on two features and two samples after a second update in
\* which both the weights and the bias moved
C14_Witness ==
  /\ frame.active /\ ~IsLinear(frame.inst) /\ Valid(frame.X, frame.y)
  /\ frame.n >= 2 /\ frame.m >= 2
  /\ Len(frame.steps) >= 2
  /\ frame.steps[2][1] # frame.steps[1][1]
  /\ frame.steps[2][2] # frame.steps[1][2]

\* ln 2 to the three decimals of the logarithm tables
Ln2 == Rat(693, 1000)

\* C15: the first iteration of LogisticRegression.fit starts from zero
\* parameters, where every prediction is 1/2 whatever X is: the first loss
\* is ln 2 for every dataset, and the first step gives
\* w = (lr/m) Xt.(y - 1/2) and b = lr (mean(y) - 1/2), so b stays 0 when the
\* labels are balanced
C15_LogisticFirstStep ==
  /\ (frame.active /\ ~IsLinear(frame.inst) /\ Valid(frame.X, frame.y) /\ frame.i >= 1) =>
       /\ frame.losses[1] = Ln2
       /\ \A j \in 1..frame.n :
            frame.steps[1][1][j] =
              RMul(RDiv(models[frame.inst].learning_rate, FromInt(frame.m)),
                   Sum(Array([i \in 1..frame.m |->
                     RMul(frame.X[i][j], RSub(frame.y[i], Half))])))
       /\ frame.steps[1][2] =
            RMul(models[frame.inst].learning_rate,
                 RSub(RDiv(Sum(frame.y), FromInt(frame.m)), Half))
       /\ RMul(FromInt(2), Sum(frame.y)) = FromInt(frame.m) => frame.steps[1][2] = Zero
  /\ (/\ outcome.op = "predict" /\ outcome.status = "ok" /\ ~IsLinear(outcome.inst)
      /\ models[outcome.inst].bias = Zero
      /\ \A j \in 1..Len(heap[models[outcome.inst].coef]) :
           heap[models[outcome.inst].coef][j] = Zero) =>
       \A r \in 1..Len(outcome.preds) : outcome.preds[r] = Half

\* a first logistic step on unbalanced labels, two samples or more, that
\* moved the bias and a weight
C15_Witness ==
  /\ frame.active /\ ~IsLinear(frame.inst) /\ Valid(frame.X, frame.y)
  /\ frame.i = 1 /\ frame.m >= 2
  /\ frame.steps[1][2] # Zero
  /\ \E j \in 1..frame.n : frame.steps[1][1][j] # Zero

\* C16: the class labels made of the probabilities LogisticRegression.predict
\* returns follow the documented rule: positive (1) for a probability of
\* 0.5 or more, 0.5 itself included, and negative (0) below 0.5
C16_ThresholdRule ==
  (outcome.op = "predict" /\ outcome.labels # <<>>) =>
    \A r \in 1..Len(outcome.preds) :
      /\ RLeq(Half, outcome.preds[r]) => outcome.labels[r] = 1
      /\ RLess(outcome.preds[r], Half) => outcome.labels[r] = 0

\* a score at which 1 + e^-z is neither 1 nor infinite in double precision
Unsaturated(z) == RLeq(FromInt(-(ExpOverflow - 1)), z) /\ RLeq(z, FromInt(ExpNegligible - 1))

\* C17 as stated: every value LogisticRegression.predict returns lies
\* strictly between 0 and 1
C17_StrictlyInside ==
  (outcome.op = "predict" /\ outcome.status = "ok" /\ ~IsLinear(outcome.inst)) =>
    \A r \in 1..Len(outcome.preds) :
      RLess(Zero, outcome.preds[r]) /\ RLess(outcome.preds[r], One)

\* C17 amended: LogisticRegression.predict returns sigmoid(X.w + b) row by
\* row; every value lies in the closed interval [0, 1], strictly inside it
\* for a score z with -709 <= z <= 36, and is exactly 1 for z >= 37 and
\* exactly 0 for z <= -710
C17_ClosedInterval ==
  (outcome.op = "predict" /\ outcome.status = "ok" /\ ~IsLinear(outcome.inst)) =>
    /\ Len(outcome.preds) = NumRows(outcome.X)
    /\ \A r \in 1..Len(outcome.preds) :
         /\ outcome.preds[r] =
              Sigmoid(Score(outcome.X, heap[models[outcome.inst].coef],
                            models[outcome.inst].bias, r))
         /\ RLeq(Zero, outcome.preds[r]) /\ RLeq(outcome.preds[r], One)
         /\ Unsaturated(Score(outcome.X, heap[models[outcome.inst].coef],
                              models[outcome.inst].bias, r)) =>
              (RLess(Zero, outcome.preds[r]) /\ RLess(outcome.preds[r], One))
         /\ RLeq(FromInt(ExpNegligible),
                 Score(outcome.X, heap[models[outcome.inst].coef],
                       models[outcome.inst].bias, r)) => outcome.preds[r] = One
         /\ RLeq(Score(outcome.X, heap[models[outcome.inst].coef],
                       models[outcome.inst].bias, r),
                 FromInt(-ExpOverflow)) => outcome.preds[r] = Zero

\* a trained model has returned a probability of exactly 1 for one row
\* and one strictly inside (0, 1) for another
C17_Witness ==
  /\ outcome.op = "predict" /\ outcome.status = "ok" /\ ~IsLinear(outcome.inst)
  /\ Len(history[outcome.inst].steps) >= 1
  /\ \E r \in 1..Len(outcome.preds) : outcome.preds[r] = One
  /\ \E r \in 1..Len(outcome.preds) :
       RLess(Zero, outcome.preds[r]) /\ RLess(outcome.preds[r], One)

\* C18: fit repeats its iteration until the loss has converged: once an
\* iteration's loss equals the loss of the iteration before it, no further
\* iteration is performed, so an equal pair can only end a loss trace
C18_StopsOnConvergence ==
  /\ frame.active =>
       \A k \in 2..Len(frame.losses) :
         frame.losses[k] = frame.losses[k - 1] => k = Len(frame.losses)
  /\ outcome.op = "fit" =>
       \A k \in 2..Len(outcome.losses) :
         outcome.losses[k] = outcome.losses[k - 1] => k = Len(outcome.losses)

\* the learning rate is small for the data: lr * (1 + |x_i|^2) <= 2 for
\* every sample, which bounds lr by 2 over the largest curvature of the
\* squared-error loss
SufficientlySmall(lr, X) ==
  \A i \in 1..Len(X) :
    RLeq(RMul(lr, RAdd(One, Sum(Array([j \in 1..Len(X[i]) |-> Sq(X[i][j])])))),
         FromInt(2))

NonIncreasing(losses) ==
  \A k \in 2..Len(losses) : RLeq(losses[k], losses[k - 1])

\* C20: with a learning rate that is positive and sufficiently small for
\* the data, the loss trace of LinearRegression.fit never increases: every
\* entry is less than or equal to the entry before it, on every dataset
\* and for every number of iterations
C20_LossNonIncreasing ==
  /\ (frame.active /\ IsLinear(frame.inst) /\ Valid(frame.X, frame.y)
        /\ RLess(Zero, models[frame.inst].learning_rate)
        /\ SufficientlySmall(models[frame.inst].learning_rate, frame.X)) =>
       NonIncreasing(frame.losses)
  /\ (outcome.op = "fit" /\ outcome.status = "ok" /\ IsLinear(outcome.inst)
        /\ Valid(outcome.X, outcome.y)
        /\ RLess(Zero, models[outcome.inst].learning_rate)
        /\ SufficientlySmall(models[outcome.inst].learning_rate, outcome.X)) =>
       NonIncreasing(outcome.losses)

\* a returned trace of three losses or more on two features or more, each
\* loss strictly below the one before
C20_Witness ==
  /\ outcome.op = "fit" /\ outcome.status = "ok" /\ IsLinear(outcome.inst)
  /\ Valid(outcome.X, outcome.y)
  /\ SufficientlySmall(models[outcome.inst].learning_rate, outcome.X)
  /\ NumCols(outcome.X) >= 2 /\ NumRows(outcome.X) >= 2
  /\ Len(outcome.losses) >= 3
  /\ \A k \in 2..Len(outcome.losses) : RLess(outcome.losses[k], outcome.losses[k - 1])

\* the columns of X have mean 0, mean square 1 and no correlation
Standardized(X) ==
  /\ \A j \in 1..NumCols(X) : Sum(Array([i \in 1..Len(X) |-> X[i][j]])) = Zero
  /\ \A j, k \in 1..NumCols(X) :
       Sum(Array([i \in 1..Len(X) |-> RMul(X[i][j], X[i][k])])) =
         (IF j = k THEN FromInt(Len(X)) ELSE Zero)

\* the parameters that data are generated from
TrueVals == {Rat(-1, 2), Zero, Rat(1, 2), One}
TrueParams(n) == Vectors(TrueVals, n) \X TrueVals

\* y = w_true . x + b_true for every sample, without noise
GeneratedFrom(X, y, t) == \A i \in 1..Len(X) : y[i] = Score(X, t[1], t[2], i)

RAbs(a) == IF RLess(a, Zero) THEN RNeg(a) ELSE a

RECURSIVE RPow(_, _)
RPow(a, k) == IF k = 0 THEN One ELSE RMul(a, RPow(a, k - 1))

Tolerance == Rat(1, 10)

\* T iterations at the rate lr are enough for the parameters t on
\* standardized data: the distance (1 - lr)^T * |t_j| left to every one of
\* them is below the tolerance
EnoughFor(T, lr, t) ==
  /\ \A j \in 1..Len(t[1]) : RLess(RMul(RPow(RAbs(RSub(One, lr)), T), RAbs(t[1][j])), Tolerance)
  /\ RLess(RMul(RPow(RAbs(RSub(One, lr)), T), RAbs(t[2])), Tolerance)

C21_PredictOnlyAfterFitReturned ==
  (outcome.op = "predict" /\ outcome.status = "ok") => history[outcome.inst].fitted

\* ------------------------------------------------------------------------
\* C22: a fit() call that fails on an already fitted model fails before
\* changing the previously fitted weights and bias: the parameters are
\* those of the last fit that returned.
\* ------------------------------------------------------------------------
C22_FailedFitKeepsParams ==
  (outcome.op = "fit" /\ outcome.status # "ok" /\ history[outcome.inst].fitted) =>
    /\ heap[models[outcome.inst].coef] = history[outcome.inst].coef
    /\ models[outcome.inst].bias = history[outcome.inst].bias

\* C22, as the code has it: a fit() call that fails has replaced the
\* parameters by zeros, one weight for every column of the X it was given,
\* and has applied no update to them
C22_FailedFitLeavesZeros ==
  (outcome.op = "fit" /\ outcome.status # "ok") =>
    /\ heap[models[outcome.inst].coef] = Zeros(NumCols(outcome.X))
    /\ models[outcome.inst].bias = Zero

\* a fit has failed on a model whose last fit returned trained parameters
C22_Witness ==
  /\ outcome.op = "fit" /\ outcome.status # "ok"
  /\ history[outcome.inst].fitted
  /\ history[outcome.inst].coef # Zeros(Len(history[outcome.inst].coef))
  /\ history[outcome.inst].bias # Zero

\* ------------------------------------------------------------------------
\* C23: for the same X, y and learning rate and T <= T', the loss trace of
\* a fit with max_iterations = T is the first T entries of the trace of a
\* fit with max_iterations = T', and the parameters the T-fit returns are
\* those the T'-fit holds after its T-th update.
\* ------------------------------------------------------------------------
\* two instances of one class constructed with the same learning rate and
\* with max_iterations of their own
InitPrefix ==
  /\ \E k \in Kinds, T \in [Inst -> 0..MaxIter] :
       models = [i \in Inst |-> Construct(k, T[i], Half)]
  /\ heap = <<>>
  /\ frame = NoFrame
  /\ outcome = NoOutcome
  /\ history = [i \in Inst |-> NoHistory]

SpecPrefix == InitPrefix /\ [][Next]_vars

\* the last fits of a and b returned and were given the same data, and a
\* runs no more iterations than b
ShorterFit(a, b) ==
  /\ history[a].fitted /\ history[b].fitted
  /\ history[a].X = history[b].X /\ history[a].y = history[b].y
  /\ models[a].max_iterations <= models[b].max_iterations

C23_PrefixOfLongerFit ==
  \A a, b \in Inst :
    ShorterFit(a, b) =>
      LET T == models[a].max_iterations
          at == ParamsAt(history[b].steps, NumCols(history[b].X), T)
      IN  /\ history[a].losses = SubSeq(history[b].losses, 1, T)
          /\ history[a].coef = at[1]
          /\ history[a].bias = at[2]

\* a fit of one iteration and a fit of three on the same data, whose
\* losses and parameters move from one iteration to the next
C23_Witness ==
  /\ ShorterFit(1, 2)
  /\ models[1].max_iterations = 1 /\ models[2].max_iterations = 3
  /\ history[2].losses[1] # history[2].losses[2]
  /\ history[2].steps[1] # history[2].steps[3]

\* ------------------------------------------------------------------------
\* C24: in LogisticRegression.fit, when a prediction is exactly 0 or 1
\* while its label requires the other branch, the loss of the iteration
\* is a non-finite value appended to the loss trace; no error is raised,
\* the update is still applied, and fit runs all max_iterations
\* iterations and returns.
\* ------------------------------------------------------------------------
\* the prediction of sample r at the parameters p = <<w, b>>
ProbAt(X, p, r) == Sigmoid(Score(X, p[1], p[2], r))

\* some prediction is exactly 0 with label 1, or exactly 1 with label 0
SaturatedAgainstLabel(X, y, p) ==
  \E r \in 1..Len(X) :
    \/ ProbAt(X, p, r) = Zero /\ y[r] = One
    \/ ProbAt(X, p, r) = One /\ y[r] = Zero

\* the iteration that started at the parameters p recorded the loss and
\* left the parameters after
SaturatedIteration(lr, X, y, p, loss, after) ==
  SaturatedAgainstLabel(X, y, p) =>
    /\ ~IsFinite(loss)
    /\ after = StepFrom(lr, X, p[1], p[2], ResidualOf("logistic", X, y, p[1], p[2]))

C24_SaturatedLossIsValue ==
  /\ (frame.active /\ ~IsLinear(frame.inst) /\ Valid(frame.X, frame.y)) =>
       /\ Len(frame.losses) = frame.i
       /\ \A k \in 1..frame.i :
            SaturatedIteration(models[frame.inst].learning_rate, frame.X, frame.y,
                               ParamsAt(frame.steps, frame.n, k - 1),
                               frame.losses[k], frame.steps[k])
  /\ (outcome.op = "fit" /\ ~IsLinear(outcome.inst) /\ Valid(outcome.X, outcome.y)) =>
       /\ outcome.status = "ok"
       /\ Len(outcome.losses) = models[outcome.inst].max_iterations

\* a fit of three iterations has returned; its second iteration started
\* from a prediction saturated against its label, and moved the parameters
C24_Witness ==
  /\ outcome.op = "fit" /\ outcome.status = "ok" /\ Valid(outcome.X, outcome.y)
  /\ Len(outcome.losses) = 3
  /\ SaturatedAgainstLabel(outcome.X, outcome.y, history[outcome.inst].steps[1])
  /\ ~IsFinite(outcome.losses[2])
  /\ history[outcome.inst].steps[2] # history[outcome.inst].steps[1]

\* ------------------------------------------------------------------------
\* C25: sigmoid computes 1 / (1 + e^(-z)) and never evaluates e^z: for
\* arbitrarily large positive z the result is a finite value, at most 1,
\* with no overflow; g(0) = 1/2; and g agrees with the documented
\* e^z / (1 + e^z) wherever that formula does not overflow.
\* ------------------------------------------------------------------------
\* g(z) as the notebook's text gives it
DocumentedSigmoid(z) == RDiv(Exp(z), RAdd(One, Exp(z)))

\* z lies where the exponential tables hold e^z and e^(-z) both
InTables(z) == IsFinite(z) /\ Abs(RoundAway(z)) < ExpNegligible

\* p is what the claim says of g(z)
StableAt(z, p) ==
  /\ RLeq(Zero, z) => (IsFinite(p) /\ RLeq(p, One))
  /\ z = Zero => p = Half
  /\ InTables(z) => p = DocumentedSigmoid(z)

C25_InsideTables ==
  /\ outcome.op = "predict" /\ outcome.status = "ok" /\ ~IsLinear(outcome.inst)
  /\ \E r \in 1..Len(outcome.preds) :
       /\ InTables(Score(outcome.X, heap[models[outcome.inst].coef],
                         models[outcome.inst].bias, r))
       /\ outcome.preds[r] # Half

\* ------------------------------------------------------------------------
\* C26: after fit() returns, the trained parameters are owned by the
\* instance alone: nothing the caller does with the returned values,
\* modifying the returned coefficient vector in place included, changes
\* the model's weights; the parameters change only through fit().
\* ------------------------------------------------------------------------
\* the values a caller stores into the array it was handed
CallerVals == {FromInt(5)}

\* losses, coef, bias = model.fit(X, y); coef[j] = v: the caller assigns
\* to an entry of the array that fit returned
CallerAssigns(j, v) ==
  /\ ~frame.active
  /\ outcome.op = "fit" /\ outcome.status = "ok"
  /\ j \in 1..Len(heap[outcome.coef])
  /\ heap[outcome.coef][j] # v
  /\ heap' = [heap EXCEPT ![outcome.coef][j] = v]
  /\ UNCHANGED <<models, frame, outcome, history>>

\* the experiment of SpecFit with a caller that assigns to the returned
\* coefficients before it predicts
NextCaller ==
  \/ NextFit
  \/ \E j \in 1..MaxCells, v \in CallerVals : CallerAssigns(j, v)

SpecCaller == InitFit /\ [][NextCaller]_vars

C26_ParamsOwnedByInstance ==
  \A i \in Inst :
    (history[i].fitted /\ ~frame.active) =>
      /\ heap[models[i].coef] = history[i].coef
      /\ models[i].bias = history[i].bias

\* ------------------------------------------------------------------------
\* C27: the loss trace, coefficient vector and bias a fit() returned are
\* not changed by any later fit() or predict() on the same instance: each
\* fit allocates a fresh coefficient vector and starts a fresh loss list.
\* ------------------------------------------------------------------------
\* the array at reference k is the one the fit in progress updates
BeingFitted(k) == frame.active /\ models[frame.inst].coef = k

C27_ReturnedValuesStable ==
  [][/\ \A k \in 1..Len(heap) :
          ~BeingFitted(k) => (k <= Len(heap') /\ heap'[k] = heap[k])
     /\ (~frame.active /\ frame'.active) =>
          /\ frame'.losses = <<>>
          /\ models'[frame'.inst].coef \notin 1..Len(heap)
     /\ \A i \in Inst :
          (history[i].fitted /\ history'[i] # history[i]) =>
            (frame.active /\ frame.inst = i /\ ~frame'.active)]_vars

\* a second fit on an instance has returned, and the array its first fit
\* returned still holds the trained values, which differ from the new ones
C27_Witness ==
  /\ outcome.op = "fit" /\ outcome.status = "ok"
  /\ models[outcome.inst].coef = 2
  /\ \A i \in Inst \ {outcome.inst} : models[i].coef = 0
  /\ heap[1] # Zeros(Len(heap[1]))
  /\ heap[2] # Zeros(Len(heap[2]))
  /\ heap[1] # heap[2]

\* ------------------------------------------------------------------------
\* C28: after any sequence of fit() and predict() calls of which at least
\* one fit has returned, the coefficient vector has one entry for every
\* column of the X passed to the most recent fit and the bias is a scalar;
\* a fit() with a different column count replaces the vector with one of
\* the new length.
\* ------------------------------------------------------------------------
\* a scalar number: a pair of integers, not an array
IsScalar(b) == b \in Int \X Int

C28_CoefMatchesLastFit ==
  [][/\ \A i \in Inst :
          IF ~frame.active /\ frame'.active /\ frame'.inst = i
          THEN /\ models'[i].coef # 0
               /\ Len(heap'[models'[i].coef]) = NumCols(frame'.X)
               /\ IsScalar(models'[i].bias)
          ELSE models[i].coef # 0 =>
                 /\ models'[i].coef # 0
                 /\ Len(heap'[models'[i].coef]) = Len(heap[models[i].coef])
                 /\ IsScalar(models'[i].bias)
     /\ (frame.active /\ ~frame'.active /\ outcome'.status = "ok") =>
          /\ outcome'.coef = models'[outcome'.inst].coef
          /\ Len(heap'[outcome'.coef]) = NumCols(outcome'.X)
          /\ IsScalar(outcome'.bias)]_vars

\* a fit on two columns has returned on an instance whose first fit was on
\* one column (or the other way round)
C28_Witness ==
  /\ outcome.op = "fit" /\ outcome.status = "ok"
  /\ models[outcome.inst].coef = 2
  /\ \A i \in Inst \ {outcome.inst} : models[i].coef = 0
  /\ Len(heap[1]) # Len(heap[2])
  /\ Len(heap[2]) = NumCols(outcome.X)

\* ------------------------------------------------------------------------
\* C29: every entry of the linear trainer's loss trace is >= 0.  An exact
\* fit is a fixed point: when X.w + b = y at the start of an iteration the
\* loss is 0, the update leaves w and b unchanged, and all later losses
\* are 0.  With y all zeros every loss is 0 and the parameters stay zero.
\* ------------------------------------------------------------------------
\* the linear predictions at the parameters p = <<w, b>> are y exactly
ExactAt(X, y, p) == \A r \in 1..Len(X) : Score(X, p[1], p[2], r) = y[r]

C29_LossNonNegativeFixedPoint ==
  (frame.active /\ IsLinear(frame.inst) /\ Valid(frame.X, frame.y)) =>
    \A k \in 1..frame.i :
      /\ RLeq(Zero, frame.losses[k])
      /\ \A j \in 0..(k - 1) :
           ExactAt(frame.X, frame.y, ParamsAt(frame.steps, frame.n, j)) =>
             /\ frame.losses[k] = Zero
             /\ frame.steps[k] = ParamsAt(frame.steps, frame.n, j)
      /\ (\A r \in 1..frame.m : frame.y[r] = Zero) =>
           /\ frame.losses[k] = Zero
           /\ frame.steps[k] = <<Zeros(frame.n), Zero>>

\* a linear fit whose first update, from a loss above 0, reached an exact
\* fit of a target other than zero, and which has run two iterations more
C29_Witness ==
  /\ frame.active /\ IsLinear(frame.inst) /\ Valid(frame.X, frame.y)
  /\ frame.i = 3
  /\ RLess(Zero, frame.losses[1])
  /\ ExactAt(frame.X, frame.y, frame.steps[1])
  /\ frame.losses[3] = Zero

\* ------------------------------------------------------------------------
\* C30: in LogisticRegression.fit the loss of an iteration is non-finite
\* whenever any prediction is exactly 0 or 1, whatever the label: a
\* saturated prediction that agrees with its label makes the loss NaN
\* through 0 * log(0), one that disagrees makes it infinite.
\* ------------------------------------------------------------------------
\* some prediction is exactly 0 with label 0, or exactly 1 with label 1
SaturatedWithLabel(X, y, p) ==
  \E r \in 1..Len(X) :
    \/ ProbAt(X, p, r) = Zero /\ y[r] = Zero
    \/ ProbAt(X, p, r) = One /\ y[r] = One

\* C30 as stated, of the loss of an iteration that started at p
AsStatedAt(X, y, p, loss) ==
  /\ SaturatedWithLabel(X, y, p) => IsNaN(loss)
  /\ SaturatedAgainstLabel(X, y, p) => loss = PosInf

C30_AgreeNaNDisagreeInfinite ==
  (frame.active /\ ~IsLinear(frame.inst) /\ Valid(frame.X, frame.y)) =>
    \A k \in 1..frame.i :
      AsStatedAt(frame.X, frame.y, ParamsAt(frame.steps, frame.n, k - 1), frame.losses[k])

\* NaN when some saturated prediction agrees with its label, +inf when
\* saturated predictions disagree with their labels and none agrees
NonFiniteAt(X, y, p, loss) ==
  IF SaturatedWithLabel(X, y, p) THEN IsNaN(loss)
  ELSE SaturatedAgainstLabel(X, y, p) => loss = PosInf

\* C30 amended: the loss is non-finite whenever any prediction is exactly
\* 0 or 1; it is NaN when some saturated prediction agrees with its label,
\* and +inf when saturated predictions disagree with their labels and none
\* agrees
C30_SaturatedLossNonFinite ==
  (frame.active /\ ~IsLinear(frame.inst) /\ Valid(frame.X, frame.y)) =>
    \A k \in 1..frame.i :
      NonFiniteAt(frame.X, frame.y, ParamsAt(frame.steps, frame.n, k - 1), frame.losses[k])

\* an iteration started from saturated predictions that all disagree with
\* their labels: the loss is +inf
C30_InfiniteCase ==
  /\ frame.active /\ ~IsLinear(frame.inst) /\ Valid(frame.X, frame.y)
  /\ \E k \in 1..frame.i :
       /\ SaturatedAgainstLabel(frame.X, frame.y, ParamsAt(frame.steps, frame.n, k - 1))
       /\ ~SaturatedWithLabel(frame.X, frame.y, ParamsAt(frame.steps, frame.n, k - 1))
       /\ frame.losses[k] = PosInf

\* an iteration started from saturated predictions of which one agrees
\* with its label and one disagrees: the loss is NaN
C30_Witness ==
  /\ frame.active /\ ~IsLinear(frame.inst) /\ Valid(frame.X, frame.y)
  /\ \E k \in 1..frame.i :
       /\ SaturatedAgainstLabel(frame.X, frame.y, ParamsAt(frame.steps, frame.n, k - 1))
       /\ SaturatedWithLabel(frame.X, frame.y, ParamsAt(frame.steps, frame.n, k - 1))
       /\ IsNaN(frame.losses[k])

====
